---- MODULE Spec2Model ----
(***************************************************************************)
(* RailConnect: the booking / waitlist engine of src/railconnect.cpp       *)
(* (class BookingDatabase, models.cpp section).                            *)
(*                                                                         *)
(* Representation                                                          *)
(*   QString trainId   a string, "" is the empty QString                   *)
(*   QString pnr       a natural number, 0 is the empty QString; the       *)
(*                     n-th PNR drawn from QUuid is the number n           *)
(*   QString name      a natural number: the caller numbers its requests   *)
(*                     so that each one can be told apart                  *)
(*   double  fare      an IEEE 754 binary64 value [hi, lo, e]: the 53-bit  *)
(*                     significand hi * 2^26 + lo times 2^e (all 0 for     *)
(*                     0.0); base fares are whole numbers, kept as such    *)
(*   Train             trainId, totalSeats, bookedSeats, baseFare; name,   *)
(*                     source and destination are only read by             *)
(*                     searchTrains and the table view                     *)
(*   Passenger         name, pnr, trainId, seatNo, fare; age and gender    *)
(*                     are copied and never read by the engine             *)
(*   engine state      a record st = [trains, passengers, waitingList,     *)
(*                     disk, npnr]; npnr counts the PNRs drawn so far      *)
(***************************************************************************)
EXTENDS Integers, Sequences, FiniteSets, TLC

VARIABLES trains, passengers, waitingList, disk, npnr, nreq, accepted, cancelled, last

vars == <<trains, passengers, waitingList, disk, npnr, nreq, accepted, cancelled, last>>

(* ------------------------------ bounds -------------------------------- *)

\* Requests the callers submit to bookTicket that it accepts.
MaxReq == 4

\* Trains the registry holds before addTrain is no longer called.
MaxTrains == 3

\* Requests accepted in the runs that also call addTrain.
MaxAddReq == 2

\* Requests accepted after the restart in the runs on the sample trains.
MaxFareReq == 2

\* Requests accepted in the runs that stop and start the program.
MaxLoadReq == 2

\* Requests accepted in the runs where two clients' calls interleave.
MaxRaceReq == 4

(* ------------------------------ values -------------------------------- *)

Train(id, total, booked, base) ==
    [trainId |-> id, totalSeats |-> total, bookedSeats |-> booked, baseFare |-> base]

\* The trains written by the constructor when trains.json is missing.
SampleTrains ==
    << Train("123A", 100, 0, 200), Train("456B", 80, 0, 350), Train("789C", 120, 0, 150) >>

\* A request as onBook builds it: name and trainId set, an empty PNR.  onBook
\* leaves seatNo and fare uninitialised; bookTicket overwrites both when it
\* confirms and otherwise only copies them, and they stand as 0 here.
Request(name, trainId) ==
    [name |-> name, pnr |-> 0, trainId |-> trainId, seatNo |-> 0,
     fare |-> [hi |-> 0, lo |-> 0, e |-> 0]]

NoPassenger == Request(0, "")

\* Files: a file is missing, holds something that is no JSON array/object
\* ("corrupt"), or holds a JSON document.
MissingFile == [kind |-> "missing"]
CorruptFile == [kind |-> "corrupt"]

(* ------------------------- JSON conversions --------------------------- *)

TrainToJson(t) ==
    [trainId |-> t.trainId, totalSeats |-> t.totalSeats,
     bookedSeats |-> t.bookedSeats, baseFare |-> t.baseFare]

TrainFromJson(obj) ==
    Train(obj.trainId, obj.totalSeats, obj.bookedSeats, obj.baseFare)

PassengerToJson(p) ==
    [name |-> p.name, pnr |-> p.pnr, trainId |-> p.trainId,
     seatNo |-> p.seatNo, fare |-> p.fare]

PassengerFromJson(obj) ==
    [name |-> obj.name, pnr |-> obj.pnr, trainId |-> obj.trainId,
     seatNo |-> obj.seatNo, fare |-> obj.fare]

\* The loops of saveToFiles and loadFromFiles over an array.
TrainsToJson(ts) == [i \in 1..Len(ts) |-> TrainToJson(ts[i])]

TrainsFromJson(arr) == [i \in 1..Len(arr) |-> TrainFromJson(arr[i])]

PassengersToJson(ps) == [i \in 1..Len(ps) |-> PassengerToJson(ps[i])]

PassengersFromJson(arr) == [i \in 1..Len(arr) |-> PassengerFromJson(arr[i])]

(* ---------------------------- persistence ----------------------------- *)

\* saveToFiles: both files are rewritten from the in-memory state.
SaveToFiles(st) ==
    [st EXCEPT !.disk =
        [trainsFile   |-> [kind |-> "array", data |-> TrainsToJson(st.trains)],
         bookingsFile |-> [kind |-> "object",
                           passengers |-> PassengersToJson(st.passengers),
                           waiting    |-> PassengersToJson(st.waitingList)]]]

\* loadFromFiles: trains first (sample trains, saved at once, when the file
\* cannot be opened), then the bookings.
LoadFromFiles(st) ==
    LET tf == st.disk.trainsFile
        s1 == IF tf.kind # "missing"
              THEN IF tf.kind = "array"
                   THEN [st EXCEPT !.trains = TrainsFromJson(tf.data)]
                   ELSE st
              ELSE SaveToFiles([st EXCEPT !.trains = SampleTrains])
        bf == s1.disk.bookingsFile
    IN  IF bf.kind = "object"
        THEN [s1 EXCEPT !.passengers  = PassengersFromJson(bf.passengers),
                        !.waitingList = PassengersFromJson(bf.waiting)]
        ELSE s1

(* ------------------------------ engine -------------------------------- *)

\* findTrain handing back the first train instead of nullptr.
FindTrainOrFirst(ts, trainId) ==
    IF \E i \in 1..Len(ts) : ts[i].trainId = trainId
    THEN CHOOSE i \in 1..Len(ts) :
            /\ ts[i].trainId = trainId
            /\ \A j \in 1..(i - 1) : ts[j].trainId # trainId
    ELSE IF ts # <<>> THEN 1 ELSE 0

\* findTrain: the index of the first train with that id, 0 for nullptr.
FindTrain(ts, trainId) ==
    IF \E i \in 1..Len(ts) : ts[i].trainId = trainId
    THEN CHOOSE i \in 1..Len(ts) :
            /\ ts[i].trainId = trainId
            /\ \A j \in 1..(i - 1) : ts[j].trainId # trainId
    ELSE 0

\* qMax
qMax(a, b) == IF a > b THEN a ELSE b

\* Line 185 written with <=.
HasSeatInclusive(t) == t.bookedSeats <= t.totalSeats

\* bookTicket, line 185: the train has a seat left.
HasSeat(t) == t.bookedSeats < t.totalSeats

\* Line 188 without the increment.
NextSeatStale(bookedSeats) == bookedSeats

\* bookTicket, line 188: the value of ++bookedSeats.
NextSeat(bookedSeats) == bookedSeats + 1

(* Binary64 arithmetic, round to nearest, ties to even.  A natural number *)
(* is a sequence of bits, least significant first, the last bit 1 (<<>>   *)
(* is 0); an unpacked double is [m |-> bits, e |-> exponent of m[1]].     *)

RECURSIVE BitsOf(_)
BitsOf(n) == IF n = 0 THEN <<>> ELSE <<n % 2>> \o BitsOf(n \div 2)

RECURSIVE ValOf(_)
ValOf(x) == IF x = <<>> THEN 0 ELSE Head(x) + 2 * ValOf(Tail(x))

Zeros(n) == [i \in 1..n |-> 0]

\* x * 2^n
ShiftLeft(x, n) == IF x = <<>> THEN <<>> ELSE Zeros(n) \o x

\* x * n + carry, n and carry small
RECURSIVE MulSmall(_, _, _)
MulSmall(x, n, carry) ==
    IF x = <<>>
    THEN BitsOf(carry)
    ELSE LET t == Head(x) * n + carry
         IN  IF Tail(x) = <<>> /\ t = 0 THEN <<>>
             ELSE <<t % 2>> \o MulSmall(Tail(x), n, t \div 2)

\* x + y + carry
RECURSIVE AddBits(_, _, _)
AddBits(x, y, carry) ==
    IF x = <<>> /\ y = <<>>
    THEN BitsOf(carry)
    ELSE LET a == IF x = <<>> THEN 0 ELSE Head(x)
             b == IF y = <<>> THEN 0 ELSE Head(y)
             t == a + b + carry
         IN  <<t % 2>> \o AddBits(IF x = <<>> THEN <<>> ELSE Tail(x),
                                  IF y = <<>> THEN <<>> ELSE Tail(y), t \div 2)

\* The bits, most significant first, of floor(rem * 2^n / d), followed by
\* the remainder as last element.
RECURSIVE DivBits(_, _, _)
DivBits(rem, d, n) ==
    IF n = 0
    THEN <<rem>>
    ELSE <<(2 * rem) \div d>> \o DivBits((2 * rem) % d, d, n - 1)

Reverse(x) == [i \in 1..Len(x) |-> x[Len(x) + 1 - i]]

\* Significand width of a binary64.
SignificandBits == 53

\* The double nearest to x * 2^e.
Round53(x, e) ==
    LET L == Len(x) IN
    IF L = 0 THEN [m |-> <<>>, e |-> 0]
    ELSE IF L <= SignificandBits
    THEN [m |-> Zeros(SignificandBits - L) \o x, e |-> e - (SignificandBits - L)]
    ELSE LET s      == L - SignificandBits
             kept   == SubSeq(x, s + 1, L)
             guard  == x[s]
             sticky == \E i \in 1..(s - 1) : x[i] = 1
             up     == guard = 1 /\ (sticky \/ kept[1] = 1)
             r      == IF up THEN AddBits(kept, <<1>>, 0) ELSE kept
         IN  IF Len(r) > SignificandBits
             THEN [m |-> Tail(r), e |-> e + s + 1]
             ELSE [m |-> r, e |-> e + s]

\* int to double
IntToDouble(n) == Round53(BitsOf(n), 0)

\* The literal num/den (0 < num < den): the significand is the rounded
\* quotient num * 2^k / den with k chosen for 53 bits.
RECURSIVE LeadShift(_, _)
LeadShift(num, den) == IF 2 * num >= den THEN 1 ELSE 1 + LeadShift(2 * num, den)

DecimalLiteral(num, den) ==
    LET k   == LeadShift(num, den) + SignificandBits - 1
        q   == DivBits(num, den, k)
        rem == q[Len(q)]
        lead == LeadShift(num, den)
        x   == Reverse(SubSeq(q, lead, Len(q) - 1))
        up  == 2 * rem > den \/ (2 * rem = den /\ x[1] = 1)
        r   == IF up THEN AddBits(x, <<1>>, 0) ELSE x
    IN  IF Len(r) > SignificandBits
        THEN [m |-> Tail(r), e |-> 1 - k]
        ELSE [m |-> r, e |-> 0 - k]

\* double * small whole number
MulDouble(d, n) == Round53(MulSmall(d.m, n, 0), d.e)

\* double + double
AddDouble(c, d) ==
    IF c.m = <<>> THEN d
    ELSE IF d.m = <<>> THEN c
    ELSE LET emin == IF c.e < d.e THEN c.e ELSE d.e
         IN  Round53(AddBits(ShiftLeft(c.m, c.e - emin), ShiftLeft(d.m, d.e - emin), 0), emin)

\* The significand in two halves.
LowBits == 26

Pack(d) ==
    IF d.m = <<>> THEN [hi |-> 0, lo |-> 0, e |-> 0]
    ELSE [hi |-> ValOf(SubSeq(d.m, LowBits + 1, Len(d.m))),
          lo |-> ValOf(SubSeq(d.m, 1, LowBits)), e |-> d.e]

\* The bits of a packed double's significand.
Significand(f) ==
    IF f.hi = 0 THEN BitsOf(f.lo)
    ELSE LET l == BitsOf(f.lo) IN l \o Zeros(LowBits - Len(l)) \o BitsOf(f.hi)

\* baseFare * (1.0 + 0.01 * seats), evaluated in doubles as line 191 does.
SurgeFare(baseFare, seats) ==
    Pack(MulDouble(AddDouble(IntToDouble(1),
                             MulDouble(DecimalLiteral(1, 100), seats)),
                   baseFare))

\* SurgeFare tabulated for the base fares and seat counts that occur, so
\* that the arithmetic is evaluated once.
FareBases == {100, 150, 200, 350}
FareSeats == 0..12
FareTable == { <<b, n, SurgeFare(b, n)>> : b \in FareBases, n \in FareSeats }

TabulatedFare(baseFare, seats) ==
    IF baseFare \in FareBases /\ seats \in FareSeats
    THEN (CHOOSE r \in FareTable : r[1] = baseFare /\ r[2] = seats)[3]
    ELSE SurgeFare(baseFare, seats)

\* The fare computed from the seat count before the increment.
FareBeforeIncrement(baseFare, bookedSeats) == TabulatedFare(baseFare, bookedSeats - 1)

\* bookTicket, line 191: the fare of a booking.
Fare(baseFare, bookedSeats) == TabulatedFare(baseFare, bookedSeats)

\* bookTicket, line 199: enqueue at the tail.
Enqueue(q, p) == Append(q, p)

\* dequeue: the head and the rest.
Dequeue(q) == [head |-> Head(q), rest |-> Tail(q)]

\* Line 211 without qMax.
FreedCountNoFloor(bookedSeats) == bookedSeats - 1

\* The seat count left as it is when a ticket is cancelled.
FreedCountKept(bookedSeats) == bookedSeats

\* cancelTicket, line 211: the seat count after a seat is freed.
FreedCount(bookedSeats) == qMax(0, bookedSeats - 1)

\* The PNR drawn after n PNRs have been drawn.
NewPnr(n) == n + 1

\* removeLast() in place of removeAt(i).
RemoveLast(s, i) == SubSeq(s, 1, Len(s) - 1)

\* removeAt(i) on a sequence.
RemoveAt(s, i) == SubSeq(s, 1, i - 1) \o SubSeq(s, i + 1, Len(s))

\* bookTicket: the state after the call, what it returned, and the branch taken.
BookTicket(st, trainId, p) ==
    LET t == FindTrain(st.trains, trainId) IN
    IF t = 0
    THEN [st |-> st, ret |-> FALSE, path |-> "notfound"]
    ELSE IF HasSeat(st.trains[t])
    THEN LET seat == NextSeat(st.trains[t].bookedSeats)
             ts   == [st.trains EXCEPT ![t].bookedSeats = seat]
             np   == [p EXCEPT !.seatNo = seat,
                               !.fare   = Fare(ts[t].baseFare, ts[t].bookedSeats),
                               !.pnr    = NewPnr(st.npnr)]
         IN  [st   |-> SaveToFiles([st EXCEPT !.trains = ts,
                                              !.passengers = Append(@, np),
                                              !.npnr = @ + 1]),
              ret  |-> TRUE,
              path |-> "confirmed"]
    ELSE [st   |-> SaveToFiles([st EXCEPT !.waitingList = Enqueue(@, p)]),
          ret  |-> TRUE,
          path |-> "waitlisted"]

\* The search of lines 206-207 ending on the last record instead of failing.
FindPnrOrLast(ps, pnr) ==
    IF \E i \in 1..Len(ps) : ps[i].pnr = pnr
    THEN CHOOSE i \in 1..Len(ps) :
            /\ ps[i].pnr = pnr
            /\ \A j \in 1..(i - 1) : ps[j].pnr # pnr
    ELSE Len(ps)

\* The index of the first confirmed record with that PNR, 0 when there is none.
FindPnr(ps, pnr) ==
    IF \E i \in 1..Len(ps) : ps[i].pnr = pnr
    THEN CHOOSE i \in 1..Len(ps) :
            /\ ps[i].pnr = pnr
            /\ \A j \in 1..(i - 1) : ps[j].pnr # pnr
    ELSE 0

\* cancelTicket, lines 208-212: free the seat and remove record i.
FreeSeat(st, i) ==
    LET trainId == st.passengers[i].trainId
        t       == FindTrain(st.trains, trainId)
    IN  [st EXCEPT !.trains = IF t # 0
                              THEN [@ EXCEPT ![t].bookedSeats = FreedCount(@)]
                              ELSE @,
                   !.passengers = RemoveAt(@, i)]

\* cancelTicket, line 217: the train the dequeued request is booked against.
\* The dequeued request always booked on the train of the cancelled ticket.
PromotionTrainFreed(w, trainId) == trainId

PromotionTrain(w, trainId) == IF w.trainId = "" THEN trainId ELSE w.trainId

\* cancelTicket: the state after the call, what it returned, the record
\* removed, the trains after the seat was freed (mid), the dequeued request
\* as handed to bookTicket (w) and the branch that nested call took (promo).
CancelTicket(st, pnr) ==
    LET i == FindPnr(st.passengers, pnr) IN
    IF i = 0
    THEN [st |-> st, ret |-> FALSE, removed |-> NoPassenger, mid |-> st.trains,
          w |-> NoPassenger, promo |-> "none"]
    ELSE LET trainId == st.passengers[i].trainId
             s1      == FreeSeat(st, i)
         IN  IF s1.waitingList # <<>>
             THEN LET d  == Dequeue(s1.waitingList)
                      w  == [d.head EXCEPT !.trainId = PromotionTrain(d.head, trainId)]
                      b  == BookTicket([s1 EXCEPT !.waitingList = d.rest], w.trainId, w)
                  IN  [st |-> SaveToFiles(b.st), ret |-> TRUE,
                       removed |-> st.passengers[i], mid |-> s1.trains,
                       w |-> w, promo |-> b.path]
             ELSE [st |-> SaveToFiles(s1), ret |-> TRUE,
                   removed |-> st.passengers[i], mid |-> s1.trains,
                   w |-> NoPassenger, promo |-> "none"]

(* ------------------------------ inputs -------------------------------- *)

\* The trains.json the engine starts from: two one-seat trains.
StartTrains == << Train("T1", 1, 0, 100), Train("T2", 1, 0, 200) >>

StartDisk ==
    [trainsFile   |-> [kind |-> "array", data |-> TrainsToJson(StartTrains)],
     bookingsFile |-> MissingFile]

\* What addTrain is called with: a new train, a second train with an id the
\* registry already holds, and a train whose counters are inconsistent (the
\* struct carries plain ints and addTrain checks nothing).
NewTrains ==
    { Train("T3", 2, 0, 100), Train("T1", 2, 0, 100), Train("T3", 1, 2, 100) }

\* Train ids callers pass to bookTicket: the ids of the start trains and one
\* that no train has; with addTrain in play, the ids of the start trains and
\* the id it adds (which no train has until then).
ArgTrainIds == {"T1", "T2", "ZZ9"}
ArgTrainIdsAdd == {"T1", "T2", "T3"}

\* PNRs callers pass to cancelTicket: the empty string and every PNR drawn
\* so far, cancelled ones included.
ArgPnrs == 0..npnr

(* ------------------------------ actions ------------------------------- *)

State == [trains |-> trains, passengers |-> passengers, waitingList |-> waitingList,
          disk |-> disk, npnr |-> npnr]

Install(st) ==
    /\ trains' = st.trains
    /\ passengers' = st.passengers
    /\ waitingList' = st.waitingList
    /\ disk' = st.disk
    /\ npnr' = st.npnr

\* The record of the last call: its arguments, its result, for the
\* constructor the files it found, where the call stands when its steps are
\* taken one by one (pc) and whether another call ran between them (raced),
\* and for
\* cancelTicket the record removed, the trains once the seat was freed (mid),
\* the dequeued request as handed to bookTicket (w) and the branch the nested
\* bookTicket took (promo).
NoCall ==
    [op |-> "init", trainId |-> "", p |-> NoPassenger, pnr |-> 0, ret |-> FALSE,
     path |-> "none", removed |-> NoPassenger, mid |-> <<>>, w |-> NoPassenger,
     promo |-> "none", train |-> Train("", 0, 0, 0), files |-> <<>>,
     pc |-> "done", raced |-> FALSE]

\* BookingDatabase(): an empty engine that loads its files.
Init ==
    /\ LET st == LoadFromFiles([trains |-> <<>>, passengers |-> <<>>,
                                waitingList |-> <<>>, disk |-> StartDisk, npnr |-> 0])
       IN  /\ trains = st.trains
           /\ passengers = st.passengers
           /\ waitingList = st.waitingList
           /\ disk = st.disk
           /\ npnr = st.npnr
    /\ nreq = 0
    /\ accepted = {}
    /\ cancelled = {}
    /\ last = NoCall

\* addTrain(t)
AddTrain ==
    /\ Len(trains) < MaxTrains
    /\ \E t \in NewTrains :
        /\ trains' = Append(trains, t)
        /\ last' = [NoCall EXCEPT !.op = "addTrain", !.train = t]
    /\ UNCHANGED <<passengers, waitingList, disk, npnr, nreq, accepted, cancelled>>

\* bookTicket(trainId, p) called from outside the engine, p.trainId being
\* whatever the caller put there; the requests are numbered as accepted.
BookCall(max, ids) ==
    /\ nreq < max
    /\ \E trainId \in ids, ptid \in ids \cup {""} :
        \E p \in {Request(nreq + 1, ptid)} :
        \E b \in {BookTicket(State, trainId, p)} :
            /\ Install(b.st)
            /\ nreq' = IF b.ret THEN nreq + 1 ELSE nreq
            /\ accepted' = IF b.ret THEN accepted \cup {p.name} ELSE accepted
            /\ last' = [NoCall EXCEPT !.op = "bookTicket", !.trainId = trainId, !.p = p,
                                      !.ret = b.ret, !.path = b.path]
    /\ UNCHANGED cancelled

Book == BookCall(MaxReq, ArgTrainIds)

BookFew == BookCall(MaxAddReq, ArgTrainIdsAdd)

\* cancelTicket(pnr)
CancelCall(pnrs) ==
    /\ \E pnr \in pnrs :
        \E c \in {CancelTicket(State, pnr)} :
            /\ Install(c.st)
            /\ cancelled' = IF c.ret THEN cancelled \cup {c.removed.name} ELSE cancelled
            /\ last' = [NoCall EXCEPT !.op = "cancelTicket", !.pnr = pnr, !.ret = c.ret,
                                      !.removed = c.removed, !.mid = c.mid, !.w = c.w,
                                      !.promo = c.promo]
    /\ UNCHANGED <<nreq, accepted>>

Cancel == CancelCall(ArgPnrs)

\* The engine with a fixed registry: bookings and cancellations.
Next == Book \/ Cancel

Spec == Init /\ [][Next]_vars

\* The engine with a growing registry.
NextRegistry == AddTrain \/ BookFew \/ Cancel

SpecRegistry == Init /\ [][NextRegistry]_vars

(* The engine on its sample trains, restarted after eight bookings on      *)
(* train 123A (100 seats, base fare 200) were made and saved.              *)

FreshEngine(d) ==
    [trains |-> <<>>, passengers |-> <<>>, waitingList |-> <<>>, disk |-> d, npnr |-> 0]

\* The engine after bookTicket("123A", k) for the requests k = 1..n, started
\* with no files.
RECURSIVE BookedOn123A(_)
BookedOn123A(n) ==
    IF n = 0
    THEN LoadFromFiles(FreshEngine([trainsFile |-> MissingFile, bookingsFile |-> MissingFile]))
    ELSE BookTicket(BookedOn123A(n - 1), "123A", Request(n, "123A")).st

BusyEngine == BookedOn123A(8)

ArgTrainIdsFare == {"123A", "456B"}

\* BookingDatabase() on the files BusyEngine left; the PNRs and request
\* names drawn from here on differ from the ones in the files.
InitFare ==
    /\ LET st == LoadFromFiles(FreshEngine(BusyEngine.disk))
       IN  /\ trains = st.trains
           /\ passengers = st.passengers
           /\ waitingList = st.waitingList
           /\ disk = st.disk
    /\ npnr = BusyEngine.npnr
    /\ nreq = Len(BusyEngine.passengers)
    /\ accepted = { BusyEngine.passengers[i].name : i \in 1..Len(BusyEngine.passengers) }
    /\ cancelled = {}
    /\ last = NoCall

BookFare == BookCall(Len(BusyEngine.passengers) + MaxFareReq, ArgTrainIdsFare)

\* PNRs passed to cancelTicket after the restart: the empty string, the
\* last PNR in the files and every PNR drawn since.
ArgPnrsFare == {0} \cup (BusyEngine.npnr..npnr)

CancelFare == CancelCall(ArgPnrsFare)

NextFare == BookFare \/ CancelFare

SpecFare == InitFare /\ [][NextFare]_vars

(* The program stopped and started again: between two runs a file may be   *)
(* deleted or overwritten with something that is no JSON array/object.     *)

FilesFound(d) ==
    { [trainsFile |-> tf, bookingsFile |-> bf] :
        tf \in {d.trainsFile, MissingFile, CorruptFile},
        bf \in {d.bookingsFile, MissingFile, CorruptFile} }

ArgTrainIdsLoad == {"T1", "123A"}

\* BookingDatabase() on the files d; PNRs drawn so far are not drawn again.
Start(d, n) == LoadFromFiles([FreshEngine(d) EXCEPT !.npnr = n])

InitLoad ==
    /\ \E d \in FilesFound(StartDisk) :
        LET st == Start(d, 0)
        IN  /\ trains = st.trains
            /\ passengers = st.passengers
            /\ waitingList = st.waitingList
            /\ disk = st.disk
            /\ npnr = st.npnr
            /\ last = [NoCall EXCEPT !.op = "start", !.files = d]
    /\ nreq = 0
    /\ accepted = {}
    /\ cancelled = {}

Restart ==
    /\ \E d \in FilesFound(disk) :
        /\ Install(Start(d, npnr))
        /\ last' = [NoCall EXCEPT !.op = "start", !.files = d]
    /\ UNCHANGED <<nreq, accepted, cancelled>>

BookLoad == BookCall(MaxLoadReq, ArgTrainIdsLoad)

NextLoad == BookLoad \/ Cancel \/ Restart

SpecLoad == InitLoad /\ [][NextLoad]_vars

(* Two clients on one engine without a lock: one client's cancelTicket is  *)
(* taken step by step (seat decrement, record removal, dequeue, re-book    *)
(* and save) and the other client's bookTicket calls run between the       *)
(* steps, each as a whole.                                                 *)

ArgTrainIdsRace == {"T1"}

\* Lines 206-211: the record is found and its train's seat count decremented.
CancelDecrement ==
    /\ last.pc = "done"
    /\ \E pnr \in ArgPnrs :
        LET i == FindPnr(passengers, pnr) IN
        IF i = 0
        THEN /\ last' = [NoCall EXCEPT !.op = "cancelTicket", !.pnr = pnr, !.mid = trains]
             /\ UNCHANGED <<trains, passengers>>
        ELSE /\ trains' = FreeSeat(State, i).trains
             /\ last' = [NoCall EXCEPT !.op = "cancelTicket", !.pnr = pnr,
                                       !.removed = passengers[i],
                                       !.mid = FreeSeat(State, i).trains,
                                       !.pc = "decremented"]
             /\ UNCHANGED passengers
    /\ UNCHANGED <<waitingList, disk, npnr, nreq, accepted, cancelled>>

\* Line 212: the record is removed (bookings made meanwhile are appended
\* behind it, so it still is where the search found it).
CancelRemove ==
    /\ last.pc = "decremented"
    /\ passengers' = RemoveAt(passengers, FindPnr(passengers, last.pnr))
    /\ cancelled' = cancelled \cup {last.removed.name}
    /\ last' = [last EXCEPT !.pc = "removed"]
    /\ UNCHANGED <<trains, waitingList, disk, npnr, nreq, accepted>>

\* Lines 214-217: the front request is dequeued and given its train id; with
\* an empty queue the call saves and returns (line 220).
CancelDequeue ==
    /\ last.pc = "removed"
    /\ IF waitingList # <<>>
       THEN LET d == Dequeue(waitingList)
            IN  /\ waitingList' = d.rest
                /\ last' = [last EXCEPT
                              !.w = [d.head EXCEPT
                                       !.trainId = PromotionTrain(d.head, last.removed.trainId)],
                              !.pc = "dequeued"]
                /\ UNCHANGED disk
       ELSE /\ disk' = SaveToFiles(State).disk
            /\ last' = [last EXCEPT !.ret = TRUE, !.pc = "done"]
            /\ UNCHANGED waitingList
    /\ UNCHANGED <<trains, passengers, npnr, nreq, accepted, cancelled>>

\* Lines 218-221: the nested bookTicket, its result ignored, and the save.
CancelRebook ==
    /\ last.pc = "dequeued"
    /\ \E b \in {BookTicket(State, last.w.trainId, last.w)} :
           /\ Install(SaveToFiles(b.st))
           /\ last' = [last EXCEPT !.ret = TRUE, !.promo = b.path, !.pc = "done"]
    /\ UNCHANGED <<nreq, accepted, cancelled>>

\* The other client's bookTicket while no cancelTicket is under way.
BookAlone ==
    /\ last.pc = "done"
    /\ BookCall(MaxRaceReq, ArgTrainIdsRace)

\* The other client's bookTicket between two steps of the cancelTicket.
BookBetween ==
    /\ last.pc # "done"
    /\ nreq < MaxRaceReq
    /\ \E trainId \in ArgTrainIdsRace, ptid \in ArgTrainIdsRace \cup {""} :
        \E p \in {Request(nreq + 1, ptid)} :
        \E b \in {BookTicket(State, trainId, p)} :
            /\ Install(b.st)
            /\ nreq' = IF b.ret THEN nreq + 1 ELSE nreq
            /\ accepted' = IF b.ret THEN accepted \cup {p.name} ELSE accepted
            /\ last' = [last EXCEPT !.raced = TRUE]
    /\ UNCHANGED cancelled

NextRace ==
    \/ BookAlone
    \/ BookBetween
    \/ CancelDecrement
    \/ CancelRemove
    \/ CancelDequeue
    \/ CancelRebook

SpecRace == Init /\ [][NextRace]_vars

(* ------------------------------ claims -------------------------------- *)

\* s without its i-th element.
Except(s, i) == [k \in 1..(Len(s) - 1) |-> IF k < i THEN s[k] ELSE s[k + 1]]

\* s without the entries of the request named n.
Without(s, n) == SelectSeq(s, LAMBDA e : e.name # n)

\* How often the request named n occurs in s.
Count(s, n) == Cardinality({ i \in 1..Len(s) : s[i].name = n })

SeatsInBounds(ts) ==
    \A i \in 1..Len(ts) : 0 <= ts[i].bookedSeats /\ ts[i].bookedSeats <= ts[i].totalSeats

\* The trains of ts with id tid (one at most while ids are unique).
WithId(ts, tid) == { i \in 1..Len(ts) : ts[i].trainId = tid }

\* C1, as stated: from the valid start state, after any sequence of addTrain,
\* bookTicket and cancelTicket calls every train has
\* 0 <= bookedSeats <= totalSeats.
C1_SeatsInBoundsAlways == SeatsInBounds(trains)

\* C1, amended: the start state has every train within 0 <= bookedSeats <=
\* totalSeats, and every call that starts from such a state ends in one,
\* the nested bookTicket of a promotion included, provided that addTrain is
\* handed a train that is itself within these bounds.
C1_SeatsInBoundsKept ==
    /\ SeatsInBounds(trains)
    /\ [][ ( /\ SeatsInBounds(trains)
             /\ (last'.op = "addTrain" => SeatsInBounds(<<last'.train>>)) )
           => SeatsInBounds(trains') ]_vars

\* C1's case: a train was added, and a cancellation promoted a waiting
\* request through the nested bookTicket, all trains within bounds.
C1_Witness ==
    /\ Len(trains) > Len(StartTrains)
    /\ last.op = "cancelTicket"
    /\ last.promo = "confirmed"
    /\ SeatsInBounds(trains)

\* C2: every request bookTicket accepted is in exactly one of the confirmed
\* set, the waiting queue and the cancelled ones, and a cancelTicket call
\* with a known PNR changes size(confirmed) + size(waiting) by exactly -1.
C2_NoPassengerLostOrDuplicated ==
    [][ /\ \A n \in accepted' :
              Count(passengers', n) + Count(waitingList', n)
                + (IF n \in cancelled' THEN 1 ELSE 0) = 1
        /\ (last'.op = "cancelTicket" /\ last'.ret)
              => Len(passengers') + Len(waitingList')
                   = Len(passengers) + Len(waitingList) - 1 ]_vars

\* C3: bookTicket on an existing train with bookedSeats < totalSeats raises
\* that train's bookedSeats by exactly 1, appends exactly one record (the
\* request's) to the confirmed set, leaves the waiting queue and every other
\* train as they were, and returns true.
C3_BookWithRoom ==
    [][ \A t \in 1..Len(trains) :
          ( /\ last'.op = "bookTicket"
            /\ trains[t].trainId = last'.trainId
            /\ trains[t].bookedSeats < trains[t].totalSeats )
          => /\ last'.ret
             /\ trains' = [trains EXCEPT ![t].bookedSeats = trains[t].bookedSeats + 1]
             /\ Len(passengers') = Len(passengers) + 1
             /\ SubSeq(passengers', 1, Len(passengers)) = passengers
             /\ passengers'[Len(passengers')].name = last'.p.name
             /\ passengers'[Len(passengers')].trainId = last'.p.trainId
             /\ waitingList' = waitingList ]_vars

\* C3's case: a booking was confirmed while other requests were waiting.
C3_Witness ==
    /\ last.op = "bookTicket"
    /\ last.path = "confirmed"
    /\ waitingList # <<>>

\* C4: bookTicket on an existing train with bookedSeats = totalSeats leaves
\* every train and the confirmed set as they were and appends exactly the
\* request p at the tail of the waiting queue.
C4_BookWhenFull ==
    [][ \A t \in 1..Len(trains) :
          ( /\ last'.op = "bookTicket"
            /\ trains[t].trainId = last'.trainId
            /\ trains[t].bookedSeats = trains[t].totalSeats )
          => /\ last'.ret
             /\ trains' = trains
             /\ passengers' = passengers
             /\ waitingList' = waitingList \o <<last'.p>> ]_vars

\* C4's case: a request was queued behind another one.
C4_Witness ==
    /\ last.op = "bookTicket"
    /\ last.path = "waitlisted"
    /\ Len(waitingList) >= 2
    /\ waitingList[Len(waitingList)] = last.p

\* C5: cancelTicket with a PNR no confirmed record has returns false and
\* leaves trains, confirmed set, waiting queue and the files as they were;
\* nothing is dequeued.
C5_CancelUnknownPnr ==
    [][ ( /\ last'.op = "cancelTicket"
          /\ \A i \in 1..Len(passengers) : passengers[i].pnr # last'.pnr )
        => /\ ~last'.ret
           /\ last'.promo = "none"
           /\ UNCHANGED <<trains, passengers, waitingList, disk>> ]_vars

\* C5's case: an unknown PNR was cancelled while there were confirmed
\* records and waiting requests.
C5_Witness ==
    /\ last.op = "cancelTicket"
    /\ ~last.ret
    /\ passengers # <<>>
    /\ waitingList # <<>>

\* C6: bookTicket with a trainId no train has returns false and changes
\* neither trains, confirmed set, waiting queue nor the files.
C6_BookUnknownTrain ==
    [][ ( /\ last'.op = "bookTicket"
          /\ \A i \in 1..Len(trains) : trains[i].trainId # last'.trainId )
        => /\ ~last'.ret
           /\ UNCHANGED <<trains, passengers, waitingList, disk>> ]_vars

\* C6's case: a booking for an unknown train was refused in a state with
\* bookings.
C6_Witness ==
    /\ last.op = "bookTicket"
    /\ ~last.ret
    /\ WithId(trains, last.trainId) = {}
    /\ passengers # <<>>

\* C7: cancelTicket with the PNR of confirmed record i returns true, removes
\* exactly that record and, before any promotion, lowers the bookedSeats of
\* the train the record names by 1, not below 0, no other train changing;
\* with an empty waiting queue that is the effect of the whole call.
C7_CancelKnownPnr ==
    [][ \A i \in 1..Len(passengers) :
          ( /\ last'.op = "cancelTicket"
            /\ passengers[i].pnr = last'.pnr )
          => /\ last'.ret
             /\ last'.removed = passengers[i]
             /\ \A k \in 1..Len(passengers') : passengers'[k].pnr # last'.pnr
             /\ Len(passengers') >= Len(passengers) - 1
             /\ SubSeq(passengers', 1, Len(passengers) - 1) = Except(passengers, i)
             /\ Len(last'.mid) = Len(trains)
             /\ \A t \in 1..Len(trains) :
                  last'.mid[t] =
                    IF trains[t].trainId = passengers[i].trainId
                    THEN [trains[t] EXCEPT !.bookedSeats = IF @ >= 1 THEN @ - 1 ELSE 0]
                    ELSE trains[t]
             /\ waitingList = <<>>
                  => /\ trains' = last'.mid
                     /\ passengers' = Except(passengers, i)
                     /\ waitingList' = <<>> ]_vars

\* C7's case: a confirmed record was cancelled with nobody waiting, other
\* records staying confirmed.
C7_Witness ==
    /\ last.op = "cancelTicket"
    /\ last.ret
    /\ last.promo = "none"
    /\ waitingList = <<>>
    /\ passengers # <<>>
    /\ trains = last.mid

\* The train the front request f is promoted to when the record `removed`
\* is cancelled.
TargetOf(f, removed) == IF f.trainId = "" THEN removed.trainId ELSE f.trainId

\* C8: after a successful cancelTicket with a non-empty waiting queue, the
\* former front entry is no longer at its old position, is confirmed if its
\* target train had room and back in the queue if not, and the other
\* waiting entries keep their relative order.
C8_FrontPromotedOrRequeued ==
    [][ ( /\ last'.op = "cancelTicket"
          /\ last'.ret
          /\ waitingList # <<>> )
        => LET f    == Head(waitingList)
               tid  == TargetOf(f, last'.removed)
               room == \E t \in WithId(last'.mid, tid) :
                          last'.mid[t].bookedSeats < last'.mid[t].totalSeats
           IN  /\ ~(waitingList' # <<>> /\ Head(waitingList').name = f.name)
               /\ IF room
                  THEN Count(passengers', f.name) = 1 /\ Count(waitingList', f.name) = 0
                  ELSE Count(passengers', f.name) = 0 /\ Count(waitingList', f.name) = 1
               /\ Without(waitingList', f.name) = Tail(waitingList) ]_vars

\* C9: whenever cancelTicket moves a waiting request into the confirmed
\* set, no request that was waitlisted earlier (a request is waitlisted when
\* it is submitted, and requests are numbered as submitted) is still waiting.
C9_PromotionIsFifo ==
    [][ ( /\ last'.op = "cancelTicket"
          /\ last'.promo = "confirmed" )
        => \A k \in 1..Len(waitingList') : waitingList'[k].name > last'.w.name ]_vars

\* The train with id tid in ts.
TrainOf(ts, tid) == ts[CHOOSE i \in 1..Len(ts) : ts[i].trainId = tid]

\* A confirmed record on T1 (capacity 1, base fare 100): seat 1, fare 101.
Fare101 == Pack(IntToDouble(101))

ConfirmedOnT1(r) == r.trainId = "T1" /\ r.seatNo = 1 /\ r.fare = Fare101 /\ r.pnr # 0

\* C10: on T1 (capacity 1, base fare 100) with no bookings, booking A is
\* confirmed with seat 1 and fare 101; then booking B is waitlisted and
\* bookedSeats stays 1; then cancelling A's PNR returns true and leaves B
\* confirmed on T1 with seat 1 and fare 101, bookedSeats 1 and an empty queue.
C10_Scenario ==
    [][ /\ ( /\ last'.op = "bookTicket" /\ last'.trainId = "T1" /\ last'.p.trainId = "T1"
             /\ passengers = <<>> /\ waitingList = <<>>
             /\ TrainOf(trains, "T1").bookedSeats = 0 )
           => /\ last'.path = "confirmed"
              /\ Len(passengers') = 1
              /\ passengers'[1].name = last'.p.name
              /\ ConfirmedOnT1(passengers'[1])
              /\ TrainOf(trains', "T1").bookedSeats = 1
              /\ waitingList' = <<>>
        /\ ( /\ last'.op = "bookTicket" /\ last'.trainId = "T1" /\ last'.p.trainId = "T1"
             /\ Len(passengers) = 1 /\ ConfirmedOnT1(passengers[1])
             /\ waitingList = <<>>
             /\ TrainOf(trains, "T1").bookedSeats = 1 )
           => /\ last'.path = "waitlisted"
              /\ TrainOf(trains', "T1").bookedSeats = 1
              /\ passengers' = passengers
              /\ waitingList' = <<last'.p>>
        /\ ( /\ last'.op = "cancelTicket"
             /\ Len(passengers) = 1 /\ ConfirmedOnT1(passengers[1])
             /\ last'.pnr = passengers[1].pnr
             /\ Len(waitingList) = 1 /\ waitingList[1].trainId = "T1"
             /\ TrainOf(trains, "T1").bookedSeats = 1 )
           => /\ last'.ret
              /\ Len(passengers') = 1
              /\ passengers'[1].name = waitingList[1].name
              /\ ConfirmedOnT1(passengers'[1])
              /\ TrainOf(trains', "T1").bookedSeats = 1
              /\ waitingList' = <<>> ]_vars

\* C10's case: the state after the three calls, A being request 1 with the
\* first PNR and B request 2.
C10_Witness ==
    /\ nreq = 2
    /\ last.op = "cancelTicket"
    /\ last.pnr = 1
    /\ last.removed.name = 1 /\ ConfirmedOnT1(last.removed)
    /\ last.w.name = 2
    /\ Len(passengers) = 1 /\ passengers[1].name = 2 /\ ConfirmedOnT1(passengers[1])
    /\ waitingList = <<>>
    /\ TrainOf(trains, "T1").bookedSeats = 1

\* 100 x f = baseFare x (100 + n), f a double: exact equality of numbers.
ExactFare(f, baseFare, n) ==
    /\ f.e <= 0
    /\ MulSmall(Significand(f), 100, 0) = ShiftLeft(BitsOf(baseFare * (100 + n)), 0 - f.e)

\* The record a call appended to the confirmed set, and the train id the
\* booking that made it was given.
NewlyConfirmed(l) ==
    \/ l.op = "bookTicket" /\ l.path = "confirmed"
    \/ l.op = "cancelTicket" /\ l.promo = "confirmed"

BookedTrainId(l) == IF l.op = "bookTicket" THEN l.trainId ELSE l.w.trainId

\* C11: every record that bookTicket confirms (directly or in a promotion)
\* has seatNo = N, the train's bookedSeats after the increment, and a fare
\* with 100 x fare = baseFare x (100 + N) exactly; the records confirmed
\* earlier keep their seat and fare.
C11_FareExact ==
    [][ /\ NewlyConfirmed(last') =>
            LET r == passengers'[Len(passengers')]
                t == TrainOf(trains', BookedTrainId(last'))
            IN  /\ r.seatNo = t.bookedSeats
                /\ ExactFare(r.fare, t.baseFare, r.seatNo)
        /\ \A i \in 1..Len(passengers') : \A j \in 1..Len(passengers) :
            passengers'[i].pnr = passengers[j].pnr =>
                /\ passengers'[i].seatNo = passengers[j].seatNo
                /\ passengers'[i].fare = passengers[j].fare ]_vars

\* The files hold the trains, the confirmed passengers and the waiting queue
\* that are in memory.
PersistedEqualsMemory ==
    /\ disk.trainsFile.kind = "array"
    /\ TrainsFromJson(disk.trainsFile.data) = trains
    /\ disk.bookingsFile.kind = "object"
    /\ PassengersFromJson(disk.bookingsFile.passengers) = passengers
    /\ PassengersFromJson(disk.bookingsFile.waiting) = waitingList

\* A mutating operation has just completed: addTrain, bookTicket on either
\* path, cancelTicket returning true.
MutatingCallDone ==
    \/ last.op = "addTrain"
    \/ last.op = "bookTicket" /\ last.path \in {"confirmed", "waitlisted"}
    \/ last.op = "cancelTicket" /\ last.ret

\* C12: whenever a mutating operation has completed (file writes succeed),
\* the persisted trains, confirmed passengers and waiting queue equal the
\* ones in memory.
C12_WriteThrough == MutatingCallDone => PersistedEqualsMemory

\* C13: when the constructor finds the trains file missing or corrupt, the
\* registry it ends with is the three sample trains 123A, 456B, 789C with
\* bookedSeats 0.
C13_SeededWhenMissingOrCorrupt ==
    (last.op = "start" /\ last.files.trainsFile.kind \in {"missing", "corrupt"})
        => trains = SampleTrains

\* C20: when the constructor finds a valid bookings file, the confirmed set
\* and the waiting queue it ends with are the ones in that file, in order,
\* and the bookings file is as it was found, whatever the trains file was.
C20_ValidBookingsKept ==
    (last.op = "start" /\ last.files.bookingsFile.kind = "object")
        => /\ passengers = PassengersFromJson(last.files.bookingsFile.passengers)
           /\ waitingList = PassengersFromJson(last.files.bookingsFile.waiting)
           /\ disk.bookingsFile = last.files.bookingsFile

\* s is the beginning of t.
IsPrefix(s, t) == Len(s) <= Len(t) /\ SubSeq(t, 1, Len(s)) = s

\* C14: when a successful cancelTicket finds the queue non-empty, the front
\* request is handed to bookTicket for the cancelled ticket's train id if
\* its own trainId is empty and for its own trainId otherwise, and carries
\* that id from then on (in the confirmed set or back in the queue); only
\* the front entry leaves the queue: the entries behind it stay, in order,
\* at the head of the queue, and at most the front entry follows them.
C14_PromotionTarget ==
    [][ ( /\ last'.op = "cancelTicket"
          /\ last'.ret
          /\ waitingList # <<>> )
        => LET f   == Head(waitingList)
               tid == IF f.trainId = "" THEN last'.removed.trainId ELSE f.trainId
           IN  /\ last'.w.name = f.name
               /\ last'.w.trainId = tid
               /\ last'.promo = "confirmed" =>
                     LET r == passengers'[Len(passengers')]
                     IN  /\ r.name = f.name /\ r.trainId = tid
                         /\ r.seatNo = TrainOf(trains', tid).bookedSeats
                         /\ TrainOf(trains', tid).bookedSeats
                              = TrainOf(last'.mid, tid).bookedSeats + 1
               /\ last'.promo = "waitlisted" =>
                     LET r == waitingList'[Len(waitingList')]
                     IN  r.name = f.name /\ r.trainId = tid
               /\ IsPrefix(Tail(waitingList), waitingList')
               /\ Len(waitingList') <= Len(waitingList) ]_vars

\* C14 happens: a request waiting for another train than the one whose
\* ticket was cancelled has been dequeued and confirmed on its own train.
C14_Witness ==
    /\ last.op = "cancelTicket" /\ last.ret /\ last.promo = "confirmed"
    /\ last.w.trainId # last.removed.trainId
    /\ last.removed.trainId # ""
    /\ passengers # <<>>
    /\ passengers[Len(passengers)].name = last.w.name
    /\ passengers[Len(passengers)].trainId = last.w.trainId

\* C15: when a successful cancelTicket dequeues a front request that targets
\* the train id of the cancelled ticket (its own trainId or none), that
\* request is confirmed in the same call and is not in the queue afterwards;
\* the request is put back, at the tail, only if it targets another train
\* id and that train is full.
C15_SameTrainAlwaysConfirmed ==
    [][ ( /\ last'.op = "cancelTicket"
          /\ last'.ret
          /\ waitingList # <<>> )
        => LET f   == Head(waitingList)
               tid == TargetOf(f, last'.removed)
           IN  /\ tid = last'.removed.trainId
                     => /\ last'.promo = "confirmed"
                        /\ Count(passengers', f.name) = 1
                        /\ Count(waitingList', f.name) = 0
               /\ Count(waitingList', f.name) > 0
                     => /\ tid # last'.removed.trainId
                        /\ waitingList'[Len(waitingList')].name = f.name
                        /\ \E t \in WithId(last'.mid, tid) :
                              last'.mid[t].bookedSeats >= last'.mid[t].totalSeats ]_vars

\* C16: seat numbers are reused while still held.  When a ticket on a train
\* is cancelled (no promotion following) while another confirmed record on
\* that train holds the seat number equal to the train's bookedSeats, that
\* record then holds seat number bookedSeats + 1; and whenever a confirmed
\* record on a train holds seat number bookedSeats + 1, the next booking
\* confirmed on that train gets that same seat number, both records being
\* in the confirmed set.  So book A, book B, cancel A, book C leaves B and C
\* with one seat number.
C16_SeatNumberReused ==
    [][ /\ ( /\ last'.op = "cancelTicket" /\ last'.ret /\ last'.promo = "none"
             /\ WithId(trains, last'.removed.trainId) # {} )
           => \A i \in 1..Len(passengers) :
                ( /\ passengers[i].trainId = last'.removed.trainId
                  /\ passengers[i].pnr # last'.removed.pnr
                  /\ passengers[i].seatNo
                       = TrainOf(trains, last'.removed.trainId).bookedSeats )
                => \E j \in 1..Len(passengers') :
                     /\ passengers'[j] = passengers[i]
                     /\ passengers'[j].seatNo
                          = TrainOf(trains', last'.removed.trainId).bookedSeats + 1
        /\ ( /\ last'.op = "bookTicket" /\ last'.path = "confirmed"
             /\ last'.p.trainId = last'.trainId )
           => \A i \in 1..Len(passengers) :
                ( /\ passengers[i].trainId = last'.trainId
                  /\ passengers[i].seatNo
                       = TrainOf(trains, last'.trainId).bookedSeats + 1 )
                => /\ passengers'[i] = passengers[i]
                   /\ Len(passengers') = Len(passengers) + 1
                   /\ passengers'[Len(passengers')].trainId = passengers[i].trainId
                   /\ passengers'[Len(passengers')].seatNo = passengers[i].seatNo ]_vars

\* C16 happens: a booking on train 123A (100 seats) has just been confirmed
\* with the seat number and fare of another confirmed record on 123A.
C16_Witness ==
    /\ last.op = "bookTicket" /\ last.path = "confirmed"
    /\ last.trainId = "123A" /\ last.p.trainId = "123A"
    /\ \E i \in 1..(Len(passengers) - 1) :
        /\ passengers[i].trainId = "123A"
        /\ passengers[i].seatNo = passengers[Len(passengers)].seatNo
        /\ passengers[i].fare = passengers[Len(passengers)].fare
        /\ passengers[i].pnr # passengers[Len(passengers)].pnr
        /\ passengers[Len(passengers)].seatNo = TrainOf(trains, "123A").bookedSeats

\* C18: from the start state (unique train ids, no bookings), after any
\* sequence of bookTicket(trainId, p) and cancelTicket calls, every train's
\* bookedSeats is the number of confirmed records whose trainId is that
\* train's id.
C18_CountsMatchRecords ==
    \A t \in 1..Len(trains) :
        trains[t].bookedSeats
            = Cardinality({ i \in 1..Len(passengers) :
                              passengers[i].trainId = trains[t].trainId })

\* C19: after every completed bookTicket or cancelTicket call, no train
\* with bookedSeats < totalSeats has a request naming it in the waiting
\* queue.
C19_NoFreeSeatWhileWaiting ==
    last.op \in {"bookTicket", "cancelTicket"}
        => \A t \in 1..Len(trains) :
             trains[t].bookedSeats < trains[t].totalSeats
                => \A i \in 1..Len(waitingList) :
                     waitingList[i].trainId # trains[t].trainId

\* A cancelTicket has completed in which the dequeued front request targeted
\* the train of the cancelled ticket and was put back in the queue.
FrontLostItsSeat ==
    /\ last.op = "cancelTicket" /\ last.pc = "done" /\ last.ret
    /\ last.w.name # 0
    /\ last.w.trainId = last.removed.trainId
    /\ WithId(trains, last.removed.trainId) # {}
    /\ last.promo = "waitlisted"

\* C17: a completed cancelTicket leaves the front request, targeting the
\* train whose seat the cancellation freed, re-queued instead of confirmed
\* only if a bookTicket ran between the steps of that cancelTicket; when the
\* cancelTicket ran with no other call between its steps (as one critical
\* section) the front request targeting that train is confirmed.
C17_RequeuedOnlyWhenInterleaved ==
    /\ FrontLostItsSeat => last.raced
    /\ ( /\ last.op = "cancelTicket" /\ last.pc = "done" /\ last.ret
         /\ last.w.name # 0
         /\ last.w.trainId = last.removed.trainId
         /\ WithId(trains, last.removed.trainId) # {}
         /\ ~last.raced )
        => last.promo = "confirmed"

\* C17 happens: between the seat decrement and the re-booking another
\* client's bookTicket took the freed seat of T1, and the front request is
\* back in the queue behind a request that arrived after it.
C17_Witness ==
    /\ FrontLostItsSeat
    /\ last.raced
    /\ last.removed.trainId = "T1"
    /\ TrainOf(trains, "T1").bookedSeats = TrainOf(trains, "T1").totalSeats
    /\ \E i \in 1..Len(passengers) :
          passengers[i].name > last.w.name /\ passengers[i].seatNo = last.removed.seatNo
    /\ Len(waitingList) >= 2
    /\ waitingList[Len(waitingList)].name = last.w.name
    /\ waitingList[1].name > last.w.name

====
